---- MODULE Spec2Model ----
(***************************************************************************)
(* cache_lib: a bounded key-value Cache (src/src/cache.rs) composed of a   *)
(* Store (src/src/store.rs) and one of ten eviction policies               *)
(* (src/src/eviction.rs).  Policies are modelled as records and their      *)
(* callbacks as operators over those records; a Cache operation is one     *)
(* atomic action.  Option<T> is modelled as a set: None is {} and Some(x)  *)
(* is {x}.  A HashMap is a function whose DOMAIN is its key set; its       *)
(* iteration order is unspecified (RandomState), so a scan that depends on *)
(* it yields every element the order could put first.  A VecDeque is a     *)
(* sequence, front at index 1.                                             *)
(***************************************************************************)
EXTENDS Integers, Sequences, FiniteSets, TLC

\* ------------------------------------------------------------------ bounds
MaxKey == 3
MaxCap == 2
MaxOps == 5

Keys == 1..MaxKey

\* one key more, for the caches of capacity MaxCap + 1
WideKeys == 1..(MaxKey + 1)

None    == {}
Some(x) == {x}

\* ------------------------------------------------- HashMap / VecDeque helpers
EmptyMap == [x \in {} |-> 0]

MapInsert(m, key, val) == [x \in DOMAIN m \cup {key} |-> IF x = key THEN val ELSE m[x]]

MapRemove(m, key) == [x \in DOMAIN m \ {key} |-> m[x]]

Contains(q, key) == \E i \in DOMAIN q : q[i] = key

Retain(q, key) == SelectSeq(q, LAMBDA x : x # key)

PopFront(q) == IF q = <<>> THEN q ELSE Tail(q)

SeqKeys(q) == {q[i] : i \in DOMAIN q}

\* ------------------------------------------------------------------- Store
StoreNew == EmptyMap

StoreInsertIfAbsent(entries, key, value) ==
    IF key \in DOMAIN entries THEN entries ELSE MapInsert(entries, key, value)

StoreInsert(entries, key, value) == MapInsert(entries, key, value)

StoreGet(entries, key) == IF key \in DOMAIN entries THEN Some(entries[key]) ELSE None

StoreRemoveKeep(entries, key) == entries

StoreRemove(entries, key) == MapRemove(entries, key)

StoreContainsKey(entries, key) == key \in DOMAIN entries

\* --------------------------------------------------------------------- LRU
LRU_new == [kind |-> "LRU", use_order |-> EmptyMap, current_time |-> 0, panic |-> FALSE]

LRU_on_insert(l, key) ==
    [l EXCEPT !.current_time = @ + 1,
              !.use_order = MapInsert(@, key, l.current_time + 1)]

LRU_on_accessNoTouch(l, key) == [l EXCEPT !.current_time = @ + 1]

LRU_on_access(l, key) ==
    [l EXCEPT !.current_time = @ + 1,
              !.use_order = IF key \in DOMAIN @ THEN MapInsert(@, key, l.current_time + 1) ELSE @]

LRU_on_remove(l, key) == [l EXCEPT !.use_order = MapRemove(@, key)]

LRU_evictKeep(l) ==
    IF DOMAIN l.use_order = {}
    THEN {[key |-> None, pol |-> l]}
    ELSE {[key |-> Some(k), pol |-> l] :
            k \in {k \in DOMAIN l.use_order :
                     \A j \in DOMAIN l.use_order : l.use_order[k] <= l.use_order[j]}}

LRU_evictNewest(l) ==
    IF DOMAIN l.use_order = {}
    THEN {[key |-> None, pol |-> l]}
    ELSE {[key |-> Some(k), pol |-> [l EXCEPT !.use_order = MapRemove(@, k)]] :
            k \in {k \in DOMAIN l.use_order :
                     \A j \in DOMAIN l.use_order : l.use_order[k] >= l.use_order[j]}}

\* min_by_key over the map's iterator: a key whose timestamp is minimal
LRU_evict(l) ==
    IF DOMAIN l.use_order = {}
    THEN {[key |-> None, pol |-> l]}
    ELSE {[key |-> Some(k), pol |-> [l EXCEPT !.use_order = MapRemove(@, k)]] :
            k \in {k \in DOMAIN l.use_order :
                     \A j \in DOMAIN l.use_order : l.use_order[k] <= l.use_order[j]}}

\* -------------------------------------------------------------------- FIFO
FIFO_new == [kind |-> "FIFO", queue |-> <<>>, panic |-> FALSE]

FIFO_on_insert(f, key) == [f EXCEPT !.queue = Append(@, key)]

FIFO_on_access(f, key) == f

FIFO_on_remove(f, key) == [f EXCEPT !.queue = Retain(@, key)]

FIFO_evict(f) ==
    IF f.queue = <<>>
    THEN {[key |-> None, pol |-> f]}
    ELSE {[key |-> Some(Head(f.queue)), pol |-> [f EXCEPT !.queue = Tail(@)]]}

\* --------------------------------------------------------------------- LFU
LFU_new == [kind |-> "LFU", frequency |-> EmptyMap, panic |-> FALSE]

LFU_on_insert(f, key) == [f EXCEPT !.frequency = MapInsert(@, key, 1)]

LFU_on_accessNoCount(f, key) == f

LFU_on_access(f, key) ==
    [f EXCEPT !.frequency = IF key \in DOMAIN @ THEN MapInsert(@, key, @[key] + 1) ELSE @]

LFU_on_remove(f, key) == [f EXCEPT !.frequency = MapRemove(@, key)]

\* min_by_key keeps the first minimum the iterator meets; the iterator's
\* order is the HashMap's, so any key of minimal count can be the one
LFU_evict(f) ==
    IF DOMAIN f.frequency = {}
    THEN {[key |-> None, pol |-> f]}
    ELSE {[key |-> Some(k), pol |-> [f EXCEPT !.frequency = MapRemove(@, k)]] :
            k \in {k \in DOMAIN f.frequency :
                     \A j \in DOMAIN f.frequency : f.frequency[k] <= f.frequency[j]}}

\* --------------------------------------------------------------------- MRU
MRU_new == [kind |-> "MRU", use_order |-> EmptyMap, current_time |-> 0, panic |-> FALSE]

MRU_on_insert(m, key) ==
    [m EXCEPT !.current_time = @ + 1,
              !.use_order = MapInsert(@, key, m.current_time + 1)]

MRU_on_access(m, key) ==
    [m EXCEPT !.current_time = @ + 1,
              !.use_order = MapInsert(@, key, m.current_time + 1)]

MRU_on_remove(m, key) == [m EXCEPT !.use_order = MapRemove(@, key)]

MRU_evictOldest(m) ==
    IF DOMAIN m.use_order = {}
    THEN {[key |-> None, pol |-> m]}
    ELSE {[key |-> Some(k), pol |-> [m EXCEPT !.use_order = MapRemove(@, k)]] :
            k \in {k \in DOMAIN m.use_order :
                     \A j \in DOMAIN m.use_order : m.use_order[k] <= m.use_order[j]}}

MRU_evict(m) ==
    IF DOMAIN m.use_order = {}
    THEN {[key |-> None, pol |-> m]}
    ELSE {[key |-> Some(k), pol |-> [m EXCEPT !.use_order = MapRemove(@, k)]] :
            k \in {k \in DOMAIN m.use_order :
                     \A j \in DOMAIN m.use_order : m.use_order[k] >= m.use_order[j]}}

\* ------------------------------------------------------------------ Random
Random_new == [kind |-> "Random", keys |-> {}, panic |-> FALSE]

Random_on_insert(r, key) == [r EXCEPT !.keys = @ \cup {key}]

Random_on_access(r, key) == r

Random_on_remove(r, key) == [r EXCEPT !.keys = @ \ {key}]

\* keys().choose(rng).cloned(): the chosen key stays in the map
Random_evict(r) ==
    IF r.keys = {}
    THEN {[key |-> None, pol |-> r]}
    ELSE {[key |-> Some(k), pol |-> r] : k \in r.keys}

\* -------------------------------------------------------------------- SLRU
SLRU_new(probationary_capacity, protected_capacity) ==
    [kind |-> "SLRU", probationary |-> LRU_new, protected |-> LRU_new,
     probationary_capacity |-> probationary_capacity,
     protected_capacity |-> protected_capacity, panic |-> FALSE]

\* the shared shape "if the segment is at its capacity, evict one from it and
\* on_remove the evicted key": the segments that can result
SegmentAfterDrop(seg, cap) ==
    IF Cardinality(DOMAIN seg.use_order) >= cap
    THEN {IF r.key = None THEN r.pol
          ELSE LRU_on_remove(r.pol, CHOOSE k \in r.key : TRUE) : r \in LRU_evict(seg)}
    ELSE {seg}

SLRU_move_to_protected(s, key) ==
    IF key \in DOMAIN s.probationary.use_order
    THEN {[s EXCEPT !.probationary = LRU_on_remove(@, key),
                    !.protected = LRU_on_insert(prot, key)] :
            prot \in SegmentAfterDrop(s.protected, s.protected_capacity)}
    ELSE {s}

SLRU_on_insert(s, key) ==
    {[s EXCEPT !.probationary = LRU_on_insert(prob, key)] :
        prob \in SegmentAfterDrop(s.probationary, s.probationary_capacity)}

SLRU_on_access(s, key) ==
    IF key \in DOMAIN s.probationary.use_order
    THEN SLRU_move_to_protected(s, key)
    ELSE {[s EXCEPT !.protected = LRU_on_access(@, key)]}

SLRU_on_remove(s, key) ==
    IF key \in DOMAIN s.probationary.use_order
    THEN [s EXCEPT !.probationary = LRU_on_remove(@, key)]
    ELSE [s EXCEPT !.protected = LRU_on_remove(@, key)]

SLRU_evict(s) ==
    IF DOMAIN s.probationary.use_order # {}
    THEN {[key |-> r.key, pol |-> [s EXCEPT !.probationary = r.pol]] :
            r \in LRU_evict(s.probationary)}
    ELSE {[key |-> r.key, pol |-> [s EXCEPT !.protected = r.pol]] :
            r \in LRU_evict(s.protected)}

\* ------------------------------------------------------------------- SFIFO
\* hash is the value DefaultHasher gives each key: a fixed function of the
\* key, the same for every SFIFO instance
SFIFO_new(num_segments, segment_capacity, hash) ==
    [kind |-> "SFIFO", segments |-> [i \in 1..num_segments |-> <<>>],
     segment_capacity |-> segment_capacity, hash |-> hash, panic |-> FALSE]

\* Vec index i of the source is index i + 1 here
SFIFO_segment_index(s, key) == (s.hash[key] % Len(s.segments)) + 1

SFIFO_on_insert(s, key) ==
    LET index == SFIFO_segment_index(s, key)
        seg   == s.segments[index]
        seg1  == IF Len(seg) >= s.segment_capacity THEN PopFront(seg) ELSE seg
    IN  [s EXCEPT !.segments[index] = Append(seg1, key)]

SFIFO_on_access(s, key) == s

SFIFO_on_remove(s, key) ==
    [s EXCEPT !.segments[SFIFO_segment_index(s, key)] = Retain(@, key)]

SFIFO_evict(s) ==
    LET nonempty == {i \in DOMAIN s.segments : s.segments[i] # <<>>}
    IN  IF nonempty = {}
        THEN {[key |-> None, pol |-> s]}
        ELSE LET i == CHOOSE i \in nonempty : \A j \in nonempty : i <= j
             IN  {[key |-> Some(Head(s.segments[i])),
                   pol |-> [s EXCEPT !.segments[i] = Tail(@)]]}

\* -------------------------------------------------------------------- KLRU
KLRU_new(k) == [kind |-> "KLRU", use_order |-> <<>>, k |-> k, panic |-> FALSE]

KLRU_on_insert(s, key) == [s EXCEPT !.use_order = Append(@, key)]

KLRU_on_access(s, key) == [s EXCEPT !.use_order = Append(Retain(@, key), key)]

KLRU_on_remove(s, key) == [s EXCEPT !.use_order = Retain(@, key)]

\* use_order[len - 1 - k] of the source is index Len - k here
KLRU_evict(s) ==
    IF Len(s.use_order) > s.k
    THEN LET evicted_key == s.use_order[Len(s.use_order) - s.k]
         IN  {[key |-> Some(evicted_key),
               pol |-> [s EXCEPT !.use_order = Retain(@, evicted_key)]]}
    ELSE {[key |-> None, pol |-> s]}

\* ----------------------------------------------------------- Second-Chance
SecondChance_new == [kind |-> "SecondChance", queue |-> <<>>, panic |-> FALSE]

SecondChance_on_insert(s, key) ==
    [s EXCEPT !.queue = Append(@, [key |-> key, referenced |-> FALSE])]

SecondChance_on_access(s, key) ==
    LET hits == {i \in DOMAIN s.queue : s.queue[i].key = key}
    IN  IF hits = {} THEN s
        ELSE LET i == CHOOSE i \in hits : \A j \in hits : i <= j
             IN  [s EXCEPT !.queue[i].referenced = TRUE]

SecondChance_on_remove(s, key) ==
    [s EXCEPT !.queue = SelectSeq(@, LAMBDA e : e.key # key)]

SecondChanceLoopOnePass(queue) ==
    IF queue = <<>>
    THEN [key |-> None, queue |-> queue, pops |-> 0]
    ELSE IF Head(queue).referenced
         THEN [key |-> None, pops |-> 1,
               queue |-> Append(Tail(queue), [key |-> Head(queue).key, referenced |-> FALSE])]
         ELSE [key |-> Some(Head(queue).key), queue |-> Tail(queue), pops |-> 1]

\* the while-let loop of evict(): the key it returns, the queue it leaves and
\* the number of entries pop_front() gave it
RECURSIVE SecondChanceLoop(_)
SecondChanceLoop(queue) ==
    IF queue = <<>>
    THEN [key |-> None, queue |-> queue, pops |-> 0]
    ELSE IF Head(queue).referenced
         THEN LET r == SecondChanceLoop(Append(Tail(queue), [key |-> Head(queue).key, referenced |-> FALSE]))
              IN  [r EXCEPT !.pops = @ + 1]
         ELSE [key |-> Some(Head(queue).key), queue |-> Tail(queue), pops |-> 1]

SecondChance_evict(s) ==
    LET r == SecondChanceLoop(s.queue)
    IN  {[key |-> r.key, pol |-> [s EXCEPT !.queue = r.queue]]}

\* --------------------------------------------------------------------- ARC
ARC_new(capacity) ==
    [kind |-> "ARC", t1 |-> <<>>, t2 |-> <<>>, b1 |-> <<>>, b2 |-> <<>>,
     p |-> 0, capacity |-> capacity, panic |-> FALSE]

Min(a, b) == IF a <= b THEN a ELSE b
Max(a, b) == IF a >= b THEN a ELSE b

\* pop_front().unwrap() on an empty t2 panics: panic is set and the lists stay
ARC_replace(a, key) ==
    IF a.t1 # <<>> /\ (Len(a.t1) > a.p \/ (Contains(a.b2, key) /\ Len(a.t1) = a.p))
    THEN [a EXCEPT !.t1 = Tail(@), !.b1 = Append(@, Head(a.t1))]
    ELSE IF a.t2 = <<>>
         THEN [a EXCEPT !.panic = TRUE]
         ELSE [a EXCEPT !.t2 = Tail(@), !.b2 = Append(@, Head(a.t2))]

ARC_total(a) == Len(a.t1) + Len(a.t2) + Len(a.b1) + Len(a.b2)

ARC_on_insertNoDrop(a, key) ==
    IF Contains(a.t1, key) \/ Contains(a.t2, key)
    THEN a
    ELSE LET a1 == IF Len(a.t1) + Len(a.b1) = a.capacity
                   THEN IF Len(a.t1) < a.capacity
                        THEN ARC_replace(a, key)
                        ELSE a
                   ELSE IF ARC_total(a) >= a.capacity
                        THEN ARC_replace(a, key)
                        ELSE a
         IN  IF a1.panic THEN a1 ELSE [a1 EXCEPT !.t1 = Append(@, key)]

ARC_on_insert(a, key) ==
    IF Contains(a.t1, key) \/ Contains(a.t2, key)
    THEN a
    ELSE LET a1 == IF Len(a.t1) + Len(a.b1) = a.capacity
                   THEN IF Len(a.t1) < a.capacity
                        THEN ARC_replace([a EXCEPT !.b1 = PopFront(@)], key)
                        ELSE [a EXCEPT !.t1 = PopFront(@)]
                   ELSE IF ARC_total(a) >= a.capacity
                        THEN ARC_replace(IF ARC_total(a) = 2 * a.capacity
                                         THEN [a EXCEPT !.b2 = PopFront(@)]
                                         ELSE a, key)
                        ELSE a
         IN  IF a1.panic THEN a1 ELSE [a1 EXCEPT !.t1 = Append(@, key)]

ARC_on_access(a, key) ==
    IF Contains(a.t1, key)
    THEN [a EXCEPT !.t1 = Retain(@, key), !.t2 = Append(@, key)]
    ELSE IF Contains(a.t2, key)
    THEN [a EXCEPT !.t2 = Append(Retain(@, key), key)]
    ELSE IF Contains(a.b1, key)
    THEN LET a1 == ARC_replace(
                     [a EXCEPT !.p = Min(a.capacity,
                                         a.p + Max(Len(a.b2) \div Len(a.b1), 1))], key)
         IN  IF a1.panic THEN a1
             ELSE [a1 EXCEPT !.b1 = Retain(@, key), !.t2 = Append(@, key)]
    ELSE IF Contains(a.b2, key)
    THEN LET a1 == ARC_replace(
                     [a EXCEPT !.p = Max(0, a.p - Max(Len(a.b1) \div Len(a.b2), 1))], key)
         IN  IF a1.panic THEN a1
             ELSE [a1 EXCEPT !.b2 = Retain(@, key), !.t2 = Append(@, key)]
    ELSE a

ARC_on_remove(a, key) ==
    [a EXCEPT !.t1 = Retain(@, key), !.t2 = Retain(@, key),
              !.b1 = Retain(@, key), !.b2 = Retain(@, key)]

ARC_evictFromT2(a) ==
    IF a.t1 = <<>> /\ a.t2 = <<>>
    THEN {[key |-> None, pol |-> a]}
    ELSE IF a.t2 # <<>>
    THEN {[key |-> Some(Head(a.t2)), pol |-> [a EXCEPT !.t2 = Tail(@)]]}
    ELSE {[key |-> Some(Head(a.t1)), pol |-> [a EXCEPT !.t1 = Tail(@)]]}

ARC_evict(a) ==
    IF a.t1 = <<>> /\ a.t2 = <<>>
    THEN {[key |-> None, pol |-> a]}
    ELSE IF Len(a.t1) > a.p
    THEN {[key |-> Some(Head(a.t1)), pol |-> [a EXCEPT !.t1 = Tail(@)]]}
    ELSE IF a.t2 = <<>>
         THEN {[key |-> None, pol |-> a]}
         ELSE {[key |-> Some(Head(a.t2)), pol |-> [a EXCEPT !.t2 = Tail(@)]]}

\* ------------------------------------------- EvictionPolicy (dyn dispatch)
\* on_insert / on_access give the set of policy states the call can leave
OnInsert(pol, key) ==
    CASE pol.kind = "LRU"          -> {LRU_on_insert(pol, key)}
      [] pol.kind = "FIFO"         -> {FIFO_on_insert(pol, key)}
      [] pol.kind = "LFU"          -> {LFU_on_insert(pol, key)}
      [] pol.kind = "MRU"          -> {MRU_on_insert(pol, key)}
      [] pol.kind = "Random"       -> {Random_on_insert(pol, key)}
      [] pol.kind = "SLRU"         -> SLRU_on_insert(pol, key)
      [] pol.kind = "SFIFO"        -> {SFIFO_on_insert(pol, key)}
      [] pol.kind = "KLRU"         -> {KLRU_on_insert(pol, key)}
      [] pol.kind = "SecondChance" -> {SecondChance_on_insert(pol, key)}
      [] pol.kind = "ARC"          -> {ARC_on_insert(pol, key)}

OnAccess(pol, key) ==
    CASE pol.kind = "LRU"          -> {LRU_on_access(pol, key)}
      [] pol.kind = "FIFO"         -> {FIFO_on_access(pol, key)}
      [] pol.kind = "LFU"          -> {LFU_on_access(pol, key)}
      [] pol.kind = "MRU"          -> {MRU_on_access(pol, key)}
      [] pol.kind = "Random"       -> {Random_on_access(pol, key)}
      [] pol.kind = "SLRU"         -> SLRU_on_access(pol, key)
      [] pol.kind = "SFIFO"        -> {SFIFO_on_access(pol, key)}
      [] pol.kind = "KLRU"         -> {KLRU_on_access(pol, key)}
      [] pol.kind = "SecondChance" -> {SecondChance_on_access(pol, key)}
      [] pol.kind = "ARC"          -> {ARC_on_access(pol, key)}

OnRemove(pol, key) ==
    CASE pol.kind = "LRU"          -> LRU_on_remove(pol, key)
      [] pol.kind = "FIFO"         -> FIFO_on_remove(pol, key)
      [] pol.kind = "LFU"          -> LFU_on_remove(pol, key)
      [] pol.kind = "MRU"          -> MRU_on_remove(pol, key)
      [] pol.kind = "Random"       -> Random_on_remove(pol, key)
      [] pol.kind = "SLRU"         -> SLRU_on_remove(pol, key)
      [] pol.kind = "SFIFO"        -> SFIFO_on_remove(pol, key)
      [] pol.kind = "KLRU"         -> KLRU_on_remove(pol, key)
      [] pol.kind = "SecondChance" -> SecondChance_on_remove(pol, key)
      [] pol.kind = "ARC"          -> ARC_on_remove(pol, key)

\* the outcomes [key, pol] a call of evict() can have
Evict(pol) ==
    CASE pol.kind = "LRU"          -> LRU_evict(pol)
      [] pol.kind = "FIFO"         -> FIFO_evict(pol)
      [] pol.kind = "LFU"          -> LFU_evict(pol)
      [] pol.kind = "MRU"          -> MRU_evict(pol)
      [] pol.kind = "Random"       -> Random_evict(pol)
      [] pol.kind = "SLRU"         -> SLRU_evict(pol)
      [] pol.kind = "SFIFO"        -> SFIFO_evict(pol)
      [] pol.kind = "KLRU"         -> KLRU_evict(pol)
      [] pol.kind = "SecondChance" -> SecondChance_evict(pol)
      [] pol.kind = "ARC"          -> ARC_evict(pol)

\* ------------------------------------------------------------------- Cache
CacheNew(eviction_policy, capacity) ==
    [store |-> StoreNew, eviction_policy |-> eviction_policy, capacity |-> capacity]

\* the outcomes of set(key, value): the cache it leaves and what evict() gave
CacheSet(c, key, value) ==
    LET evs == IF Cardinality(DOMAIN c.store) >= c.capacity
               THEN Evict(c.eviction_policy)
               ELSE {[key |-> None, pol |-> c.eviction_policy]}
        After(r) ==
            LET store1 == IF r.key = None THEN c.store
                          ELSE StoreRemove(c.store, CHOOSE k \in r.key : TRUE)
                store2 == StoreInsert(store1, key, value)
            IN  {[cache   |-> [c EXCEPT !.store = store2, !.eviction_policy = pol2],
                  evicted |-> r.key,
                  ret     |-> None] : pol2 \in OnInsert(r.pol, key)}
    IN  UNION {After(r) : r \in evs}

CacheGet(c, key) ==
    IF StoreContainsKey(c.store, key)
    THEN {[cache   |-> [c EXCEPT !.eviction_policy = pol2],
           evicted |-> None,
           ret     |-> StoreGet(c.store, key)] : pol2 \in OnAccess(c.eviction_policy, key)}
    ELSE {[cache |-> c, evicted |-> None, ret |-> None]}

CacheRemove(c, key) ==
    {[cache   |-> [c EXCEPT !.eviction_policy = OnRemove(@, key),
                            !.store = StoreRemove(@, key)],
      evicted |-> None,
      ret     |-> StoreGet(c.store, key)]}

\* a panic unwinds out of the Cache operation: the call does not return
Panicked(c) == c.eviction_policy.panic

\* ------------------------------------------------------ construction inputs
\* the hash values of the keys, modulo the number of segments.  Keys are
\* interchangeable everywhere else, so every assignment is a renaming of one
\* that is non-decreasing in the key.
Hashes(num_segments) ==
    {h \in [Keys -> 0..(num_segments - 1)] :
        \A k \in Keys : k + 1 \in Keys => h[k] <= h[k + 1]}

\* the policies a Cache of the given capacity is built with: segment
\* capacities that add up (SLRU) or multiply (SFIFO) to the Cache capacity,
\* KLRU's k below it, and ARC with any capacity of its own
Policies(capacity) ==
    {LRU_new, FIFO_new, LFU_new, MRU_new, Random_new, SecondChance_new}
    \cup {SLRU_new(pq[1], pq[2]) :
            pq \in {x \in (1..capacity) \X (1..capacity) : x[1] + x[2] = capacity}}
    \cup UNION {{SFIFO_new(ns, capacity \div ns, h) : h \in Hashes(ns)} :
                  ns \in {x \in 1..capacity : capacity % x = 0}}
    \cup {KLRU_new(k) : k \in 0..(capacity - 1)}
    \cup {ARC_new(ac) : ac \in 1..MaxCap}

Caches == UNION {{CacheNew(pol, capacity) : pol \in Policies(capacity)} : capacity \in 1..MaxCap}

\* ------------------------------------------------------------------- state
VARIABLES cache,      \* the Cache under test
          last,       \* the last operation: its arguments and what it gave
          lastWrite,  \* per key, the value of the last set not undone since
          n,          \* operations issued so far
          cache2,     \* a second Cache, driven by the same operations
          last2,      \* the last operation as the second Cache saw it
          hist        \* what a caller who kept notes knows of the resident keys

vars == <<cache, last, lastWrite, n, cache2, last2, hist>>

NoOp == [op |-> "new", key |-> 0, value |-> None, ret |-> None,
         evicted |-> None, returned |-> TRUE]

OpRecord(op, key, value, out) ==
    [op |-> op, key |-> key, value |-> value,
     ret |-> IF Panicked(out.cache) THEN None ELSE out.ret,
     evicted |-> out.evicted, returned |-> ~Panicked(out.cache)]

\* The caller's notes, kept from the calls made and what they gave, never
\* from the policy: the resident keys by last touch (least recent first),
\* the number of touches of each since its last set, the resident keys by
\* the set that made them resident (a set of a resident key is an update
\* and leaves the key's place), whether remove was ever called, and the
\* keys of the sets of non-resident keys made since the last call that was
\* not such a set.
HistNew == [touch |-> <<>>, count |-> [k \in WideKeys |-> 0], inserted |-> <<>>,
            removed |-> FALSE, run |-> <<>>]

Drop(q, ks) == SelectSeq(q, LAMBDA x : x \notin ks)

HistSet(h, key, evicted) ==
    [touch    |-> Append(Drop(h.touch, evicted \cup {key}), key),
     count    |-> [k \in WideKeys |-> IF k = key THEN 1
                                  ELSE IF k \in evicted THEN 0 ELSE h.count[k]],
     inserted |-> IF Contains(h.inserted, key)
                  THEN Drop(h.inserted, evicted \ {key})
                  ELSE Append(Drop(h.inserted, evicted), key),
     removed  |-> h.removed,
     run      |-> IF Contains(h.touch, key) THEN <<>> ELSE Append(h.run, key)]

HistGet(h, key, ret) ==
    IF ret = None THEN [h EXCEPT !.run = <<>>]
    ELSE [h EXCEPT !.touch = Append(Drop(h.touch, {key}), key),
                   !.count[key] = @ + 1,
                   !.run = <<>>]

HistRemove(h, key) ==
    [touch    |-> Drop(h.touch, {key}),
     count    |-> [h.count EXCEPT ![key] = 0],
     inserted |-> Drop(h.inserted, {key}),
     removed  |-> TRUE,
     run      |-> <<>>]

InitWith(caches) ==
    /\ cache \in caches
    /\ cache2 = cache
    /\ last = NoOp
    /\ last2 = NoOp
    /\ lastWrite = [k \in WideKeys |-> None]
    /\ n = 0
    /\ hist = HistNew

Init == InitWith(Caches)

CanStep(c) == n < MaxOps /\ ~Panicked(c)

\* V has no trait bound: the Cache can only move a value, never look at it.
\* Each set therefore passes a value of its own, the number of the call, so
\* that values written by different calls are never mistaken for each other.
FreshValue == n + 1

\* write-like events of set(key, value): the eviction, then the set
WriteSet(out, key, value) ==
    [k \in WideKeys |-> IF k = key THEN Some(value)
                    ELSE IF k \in out.evicted THEN None ELSE lastWrite[k]]

\* one call on the Cache under test, and what the caller sees of it
SetStep(key) ==
    /\ \E out \in CacheSet(cache, key, FreshValue) :
         /\ cache' = out.cache
         /\ last' = OpRecord("set", key, Some(FreshValue), out)
         /\ lastWrite' = WriteSet(out, key, FreshValue)
    /\ n' = n + 1

GetStep(key) ==
    /\ \E out \in CacheGet(cache, key) :
         /\ cache' = out.cache
         /\ last' = OpRecord("get", key, None, out)
    /\ n' = n + 1
    /\ UNCHANGED lastWrite

RemoveStep(key) ==
    /\ \E out \in CacheRemove(cache, key) :
         /\ cache' = out.cache
         /\ last' = OpRecord("remove", key, None, out)
    /\ lastWrite' = [lastWrite EXCEPT ![key] = None]
    /\ n' = n + 1

Set(key) ==
    /\ CanStep(cache)
    /\ SetStep(key)
    /\ UNCHANGED <<cache2, last2, hist>>

Get(key) ==
    /\ CanStep(cache)
    /\ GetStep(key)
    /\ UNCHANGED <<cache2, last2, hist>>

Remove(key) ==
    /\ CanStep(cache)
    /\ RemoveStep(key)
    /\ UNCHANGED <<cache2, last2, hist>>

Next ==
    \/ \E key \in Keys : Set(key)
    \/ \E key \in Keys : Get(key)
    \/ \E key \in Keys : Remove(key)

Spec == Init /\ [][Next]_vars

\* ----------------------------------- two caches driven by the same sequence
SetBoth(key) ==
    /\ CanStep(cache) /\ CanStep(cache2)
    /\ \E out \in CacheSet(cache, key, FreshValue), out2 \in CacheSet(cache2, key, FreshValue) :
         /\ cache' = out.cache
         /\ last' = OpRecord("set", key, Some(FreshValue), out)
         /\ lastWrite' = WriteSet(out, key, FreshValue)
         /\ cache2' = out2.cache
         /\ last2' = OpRecord("set", key, Some(FreshValue), out2)
    /\ n' = n + 1
    /\ UNCHANGED hist

GetBoth(key) ==
    /\ CanStep(cache) /\ CanStep(cache2)
    /\ \E out \in CacheGet(cache, key), out2 \in CacheGet(cache2, key) :
         /\ cache' = out.cache
         /\ last' = OpRecord("get", key, None, out)
         /\ cache2' = out2.cache
         /\ last2' = OpRecord("get", key, None, out2)
    /\ n' = n + 1
    /\ UNCHANGED <<lastWrite, hist>>

RemoveBoth(key) ==
    /\ CanStep(cache) /\ CanStep(cache2)
    /\ \E out \in CacheRemove(cache, key), out2 \in CacheRemove(cache2, key) :
         /\ cache' = out.cache
         /\ last' = OpRecord("remove", key, None, out)
         /\ cache2' = out2.cache
         /\ last2' = OpRecord("remove", key, None, out2)
    /\ lastWrite' = [lastWrite EXCEPT ![key] = None]
    /\ n' = n + 1
    /\ UNCHANGED hist

NextPair ==
    \/ \E key \in Keys : SetBoth(key)
    \/ \E key \in Keys : GetBoth(key)
    \/ \E key \in Keys : RemoveBoth(key)

SpecPair == Init /\ [][NextPair]_vars

\* ------------------------ the policies that order keys by touch or by set,
\* ------------------------ with the caller keeping notes
OrderedKinds == {"LRU", "FIFO", "LFU", "MRU", "KLRU"}

InitHist == InitWith({c \in Caches : c.eviction_policy.kind \in OrderedKinds})

SetHist(key) ==
    /\ CanStep(cache)
    /\ SetStep(key)
    /\ hist' = HistSet(hist, key, last'.evicted)
    /\ UNCHANGED <<cache2, last2>>

GetHist(key) ==
    /\ CanStep(cache)
    /\ GetStep(key)
    /\ hist' = HistGet(hist, key, last'.ret)
    /\ UNCHANGED <<cache2, last2>>

RemoveHist(key) ==
    /\ CanStep(cache)
    /\ RemoveStep(key)
    /\ hist' = HistRemove(hist, key)
    /\ UNCHANGED <<cache2, last2>>

NextHist ==
    \/ \E key \in Keys : SetHist(key)
    \/ \E key \in Keys : GetHist(key)
    \/ \E key \in Keys : RemoveHist(key)

SpecHist == InitHist /\ [][NextHist]_vars

\* ------------- caches of capacity up to MaxCap + 1, one more call, and
\* ------------- one more key where the caller's notes are kept
WideCaches ==
    UNION {{CacheNew(pol, capacity) : pol \in Policies(capacity)}
             : capacity \in 1..(MaxCap + 1)}

CanStepDeep(c) == n < MaxOps + 1 /\ ~Panicked(c)

SetWide(key) ==
    /\ CanStepDeep(cache)
    /\ SetStep(key)
    /\ hist' = HistSet(hist, key, last'.evicted)
    /\ UNCHANGED <<cache2, last2>>

GetWide(key) ==
    /\ CanStepDeep(cache)
    /\ GetStep(key)
    /\ hist' = HistGet(hist, key, last'.ret)
    /\ UNCHANGED <<cache2, last2>>

RemoveWide(key) ==
    /\ CanStepDeep(cache)
    /\ RemoveStep(key)
    /\ hist' = HistRemove(hist, key)
    /\ UNCHANGED <<cache2, last2>>

NextWide ==
    \/ \E key \in WideKeys : SetWide(key)
    \/ \E key \in WideKeys : GetWide(key)
    \/ \E key \in WideKeys : RemoveWide(key)

InitKLRU == InitWith({c \in WideCaches : c.eviction_policy.kind = "KLRU"})

SpecKLRU == InitKLRU /\ [][NextWide]_vars

InitARC == InitWith({c \in WideCaches : c.eviction_policy.kind = "ARC"})

SetDeep(key) ==
    /\ CanStepDeep(cache)
    /\ SetStep(key)
    /\ UNCHANGED <<cache2, last2, hist>>

GetDeep(key) ==
    /\ CanStepDeep(cache)
    /\ GetStep(key)
    /\ UNCHANGED <<cache2, last2, hist>>

RemoveDeep(key) ==
    /\ CanStepDeep(cache)
    /\ RemoveStep(key)
    /\ UNCHANGED <<cache2, last2, hist>>

NextDeep ==
    \/ \E key \in Keys : SetDeep(key)
    \/ \E key \in Keys : GetDeep(key)
    \/ \E key \in Keys : RemoveDeep(key)

SpecARC == InitARC /\ [][NextDeep]_vars

InitSLRU == InitWith({c \in WideCaches : c.eviction_policy.kind = "SLRU"})

SpecSLRU == InitSLRU /\ [][NextWide]_vars

\* SFIFO with the hash values of all of WideKeys, non-decreasing as in Hashes
WideHashes(num_segments) ==
    {h \in [WideKeys -> 0..(num_segments - 1)] :
        \A k \in WideKeys : k + 1 \in WideKeys => h[k] <= h[k + 1]}

SFIFOCaches(capacity) ==
    UNION {{CacheNew(SFIFO_new(ns, capacity \div ns, h), capacity) : h \in WideHashes(ns)} :
             ns \in {x \in 1..capacity : capacity % x = 0}}

InitSFIFO == InitWith(UNION {SFIFOCaches(capacity) : capacity \in 1..(MaxCap + 1)})

SpecSFIFO == InitSFIFO /\ [][NextWide]_vars

\* ------------- an LRU and an MRU instance given the same callbacks, held
\* ------------- in two Caches whose stores are not used
InitCallbacks ==
    /\ cache = CacheNew(LRU_new, MaxCap)
    /\ cache2 = CacheNew(MRU_new, MaxCap)
    /\ last = NoOp
    /\ last2 = NoOp
    /\ lastWrite = [k \in WideKeys |-> None]
    /\ n = 0
    /\ hist = HistNew

Callback(name, key, lru, mru) ==
    /\ n < MaxOps
    /\ cache' = [cache EXCEPT !.eviction_policy = lru]
    /\ cache2' = [cache2 EXCEPT !.eviction_policy = mru]
    /\ last' = [NoOp EXCEPT !.op = name, !.key = key]
    /\ last2' = [NoOp EXCEPT !.op = name, !.key = key]
    /\ n' = n + 1
    /\ UNCHANGED <<lastWrite, hist>>

OnInsertBoth(key) ==
    Callback("on_insert", key, LRU_on_insert(cache.eviction_policy, key),
             MRU_on_insert(cache2.eviction_policy, key))

OnAccessBoth(key) ==
    Callback("on_access", key, LRU_on_access(cache.eviction_policy, key),
             MRU_on_access(cache2.eviction_policy, key))

OnRemoveBoth(key) ==
    Callback("on_remove", key, LRU_on_remove(cache.eviction_policy, key),
             MRU_on_remove(cache2.eviction_policy, key))

NextCallbacks ==
    \/ \E key \in Keys : OnInsertBoth(key)
    \/ \E key \in Keys : OnAccessBoth(key)
    \/ \E key \in Keys : OnRemoveBoth(key)

SpecCallbacks == InitCallbacks /\ [][NextCallbacks]_vars

\* ------------------------------------------------- what a policy tracks
\* the keys a later evict() could return
Tracked(pol) ==
    CASE pol.kind \in {"LRU", "MRU"} -> DOMAIN pol.use_order
      [] pol.kind = "FIFO"         -> SeqKeys(pol.queue)
      [] pol.kind = "LFU"          -> DOMAIN pol.frequency
      [] pol.kind = "Random"       -> pol.keys
      [] pol.kind = "SLRU"         -> DOMAIN pol.probationary.use_order
                                      \cup DOMAIN pol.protected.use_order
      [] pol.kind = "SFIFO"        -> UNION {SeqKeys(pol.segments[i]) : i \in DOMAIN pol.segments}
      [] pol.kind = "KLRU"         -> SeqKeys(pol.use_order)
      [] pol.kind = "SecondChance" -> {pol.queue[i].key : i \in DOMAIN pol.queue}
      [] pol.kind = "ARC"          -> SeqKeys(pol.t1) \cup SeqKeys(pol.t2)

\* every key held anywhere in the policy's bookkeeping (ARC: ghosts too)
Bookkeeping(pol) ==
    IF pol.kind = "ARC"
    THEN Tracked(pol) \cup SeqKeys(pol.b1) \cup SeqKeys(pol.b2)
    ELSE Tracked(pol)

\* the number of entries the policy holds, a key held twice counted twice
RECURSIVE SumLen(_)
SumLen(segments) ==
    IF segments = <<>> THEN 0 ELSE Len(Head(segments)) + SumLen(Tail(segments))

Entries(pol) ==
    CASE pol.kind \in {"LRU", "MRU"} -> Cardinality(DOMAIN pol.use_order)
      [] pol.kind = "FIFO"         -> Len(pol.queue)
      [] pol.kind = "LFU"          -> Cardinality(DOMAIN pol.frequency)
      [] pol.kind = "Random"       -> Cardinality(pol.keys)
      [] pol.kind = "SLRU"         -> Cardinality(DOMAIN pol.probationary.use_order)
                                      + Cardinality(DOMAIN pol.protected.use_order)
      [] pol.kind = "SFIFO"        -> SumLen(pol.segments)
      [] pol.kind = "KLRU"         -> Len(pol.use_order)
      [] pol.kind = "SecondChance" -> Len(pol.queue)
      [] pol.kind = "ARC"          -> ARC_total(pol)

Resident(c) == DOMAIN c.store

Full(c) == Cardinality(DOMAIN c.store) >= c.capacity

\* ------------------------------------------------------------------ claims

\* C1: after every operation the number of keys in the store is at most the
\* Cache capacity, for every policy.
C1_Capacity == Cardinality(Resident(cache)) <= cache.capacity

\* C2: every key the policy still tracks (a later evict() could return it)
\* is present in the store.
C2_NoStaleKeys == Tracked(cache.eviction_policy) \subseteq Resident(cache)

\* C3: every key in the store is held in the policy's bookkeeping.
C3_NoOrphanKeys == Resident(cache) \subseteq Bookkeeping(cache.eviction_policy)

C5_UpdateDoesNotEvict ==
    [][(last'.op = "set" /\ n' = n + 1 /\ last'.key \in Resident(cache))
         => Resident(cache') = Resident(cache)]_vars

\* C6: when the evict() that set calls on a full store returns a key k, no
\* occurrence of k remains in the policy's bookkeeping.
C6_EvictPurges ==
    Full(cache) =>
        \A r \in Evict(cache.eviction_policy) :
            \A k \in r.key : k \notin Bookkeeping(r.pol)

\* C7: evict() returns absent exactly when the policy tracks no resident key.
C7_EvictAbsentIffEmpty ==
    \A r \in Evict(cache.eviction_policy) :
        (r.key = None) <=> (Tracked(cache.eviction_policy) \cap Resident(cache) = {})

\* C8: no Cache operation panics.
C8_NoPanic == ~Panicked(cache)

\* C9: two caches with a non-random policy, driven by the same operations,
\* evict the same key at every operation.
C9_Determinism ==
    cache.eviction_policy.kind # "Random" => last2.evicted = last.evicted

\* C10: remove(k) returns the value k had and leaves k non-resident and
\* every other key as it was; on a missing key it returns absent and leaves
\* the store unchanged.
C10_Remove ==
    [][(last'.op = "remove" /\ n' = n + 1) =>
         /\ last'.ret = StoreGet(cache.store, last'.key)
         /\ last'.key \notin Resident(cache')
         /\ \A k \in Keys \ {last'.key} :
               StoreGet(cache'.store, k) = StoreGet(cache.store, k)
         /\ (last'.key \notin Resident(cache) => cache'.store = cache.store)]_vars

C10_Witness ==
    /\ last.op = "remove" /\ last.ret # None
    /\ last.key \notin Resident(cache)
    /\ Resident(cache) # {}

\* a step that is a set of a non-resident key, made on a Cache whose policy
\* is of the given kind and whose store is at capacity
OverflowingSet(kind) ==
    /\ cache.eviction_policy.kind = kind
    /\ last'.op = "set" /\ n' = n + 1
    /\ last'.key \notin Resident(cache)
    /\ Full(cache)

\* the state after a set that made its key resident, found the store at
\* capacity and evicted another key
Overflowed(kind) ==
    /\ cache.eviction_policy.kind = kind
    /\ last.op = "set" /\ last.evicted # None /\ last.key \notin last.evicted
    /\ Cardinality(Resident(cache)) = cache.capacity

\* C11: with LRU, a set of a non-resident key that finds the store at
\* capacity evicts the resident key whose last touch (set or get) is the
\* earliest.
C11_LRUOrder ==
    [][OverflowingSet("LRU") => last'.evicted = Some(Head(hist.touch))]_vars

\* the key set by the first call is still resident after an overflow: a key
\* set later was evicted in its place, so a get had refreshed the older key
C11_Witness ==
    /\ Overflowed("LRU")
    /\ \E j \in Resident(cache) : cache.store[j] = 1

\* the resident keys that are first in insertion order: the one that became
\* resident first and, should a set of a resident key count as inserting it
\* anew, the one whose last set is the earliest (a value is the number of
\* the set that wrote it)
FirstInserted ==
    {Head(hist.inserted)}
    \cup {k \in Resident(cache) :
             \A j \in Resident(cache) : cache.store[k] <= cache.store[j]}

\* C12: with FIFO and only set and get called, a set of a non-resident key
\* that finds the store at capacity evicts the resident key that was
\* inserted first; gets do not change that order.
C12_FIFOOrder ==
    [][(OverflowingSet("FIFO") /\ ~hist.removed)
         => \E k \in FirstInserted : last'.evicted = Some(k)]_vars

\* C13: with LFU, a set of a non-resident key that finds the store at
\* capacity evicts a resident key whose count (1 at its last set, plus one
\* per successful get since) is minimal among the resident keys.
C13_LFUOrder ==
    [][OverflowingSet("LFU") =>
         \E k \in Resident(cache) :
            /\ last'.evicted = Some(k)
            /\ \A j \in Resident(cache) : hist.count[k] <= hist.count[j]]_vars

\* after an overflow a key that had been got is still resident
C13_Witness ==
    /\ Overflowed("LFU")
    /\ \E j \in Resident(cache) \ {last.key} : hist.count[j] >= 2

\* C14: with MRU, a set of a non-resident key that finds the store at
\* capacity evicts the resident key whose last touch (set or get) is the
\* latest.
C14_MRUOrder ==
    [][OverflowingSet("MRU")
         => last'.evicted = Some(hist.touch[Len(hist.touch)])]_vars

\* the fourth call overflowed and the key set by the second call survived
\* it: the third call had touched the key set first, which was evicted
C14_Witness ==
    /\ Overflowed("MRU")
    /\ n = 4
    /\ \E j \in Resident(cache) : cache.store[j] = 2

\* C16: with KLRU(k), a set of a non-resident key that finds the store at
\* capacity with more than k keys resident evicts the (k+1)-th most
\* recently touched resident key, whatever set, get and remove came before.
C16_KLRUOrder ==
    [][(OverflowingSet("KLRU")
        /\ Cardinality(Resident(cache)) > cache.eviction_policy.k)
         => last'.evicted
              = Some(hist.touch[Len(hist.touch) - cache.eviction_policy.k])]_vars

\* the queue index of the first entry whose reference bit is clear
FirstClear(queue) ==
    CHOOSE i \in DOMAIN queue :
        /\ ~queue[i].referenced
        /\ \A j \in 1..(i - 1) : queue[j].referenced

\* C15: when evict() is called on a Second-Chance queue in which some key
\* has its bit clear, it returns the first key in queue order whose bit is
\* clear, returns no key whose bit is set, and moves the keys it passed to
\* the back with their bits cleared.
C15_SecondChance ==
    (cache.eviction_policy.kind = "SecondChance" /\ Full(cache)
     /\ \E i \in DOMAIN cache.eviction_policy.queue :
           ~cache.eviction_policy.queue[i].referenced)
    => LET queue == cache.eviction_policy.queue
           first == FirstClear(queue)
       IN  \A r \in Evict(cache.eviction_policy) :
              /\ r.key = Some(queue[first].key)
              /\ r.key \cap {queue[i].key : i \in {j \in DOMAIN queue : queue[j].referenced}} = {}
              /\ r.pol.queue =
                    SubSeq(queue, first + 1, Len(queue))
                    \o [i \in 1..(first - 1) |->
                          [key |-> queue[i].key, referenced |-> FALSE]]

\* C17 (evict): SLRU's evict() takes its victim from probationary whenever
\* probationary has an entry, and from protected only when it has none.
C17_ProbationaryFirst ==
    cache.eviction_policy.kind = "SLRU" =>
        \A r \in Evict(cache.eviction_policy) :
            IF DOMAIN cache.eviction_policy.probationary.use_order # {}
            THEN /\ r.key # None
                 /\ r.key \subseteq DOMAIN cache.eviction_policy.probationary.use_order
                 /\ r.pol.protected = cache.eviction_policy.protected
            ELSE /\ r.key \subseteq DOMAIN cache.eviction_policy.protected.use_order
                 /\ r.pol.probationary = cache.eviction_policy.probationary

\* C17: in a Cache with SLRU, a set of a non-resident key that finds the
\* store at capacity does not evict a key that a get promoted to protected
\* while another resident key is in probationary.
C17_SLRUOrder ==
    [][OverflowingSet("SLRU") =>
         \A k \in last'.evicted :
            k \in DOMAIN cache.eviction_policy.protected.use_order
            => ~\E j \in Resident(cache) \ {k} :
                   j \in DOMAIN cache.eviction_policy.probationary.use_order]_vars

\* C18: with ARC built with capacity c, whatever the Cache capacity, after
\* every call |T1| + |B1| <= c and |T1| + |T2| + |B1| + |B2| <= 2c.
C18_ARCSizes ==
    cache.eviction_policy.kind = "ARC" =>
        /\ Len(cache.eviction_policy.t1) + Len(cache.eviction_policy.b1)
             <= cache.eviction_policy.capacity
        /\ ARC_total(cache.eviction_policy) <= 2 * cache.eviction_policy.capacity

\* both bounds are met with a ghost entry held, in a Cache whose capacity is
\* not the policy's
C18_Witness ==
    /\ cache.eviction_policy.kind = "ARC"
    /\ cache.capacity # cache.eviction_policy.capacity
    /\ cache.eviction_policy.b1 # <<>>
    /\ Len(cache.eviction_policy.t1) + Len(cache.eviction_policy.b1)
         = cache.eviction_policy.capacity
    /\ ARC_total(cache.eviction_policy) = 2 * cache.eviction_policy.capacity

\* C19: with ARC, a get whose on_access finds the key in B1 sets p to
\* min(capacity, p + max(|B2| / |B1|, 1)), one that finds it in B2 sets p to
\* max(0, p - max(|B1| / |B2|, 1)), no other call changes p, and
\* 0 <= p <= capacity throughout.
C19_ARCAdaptation ==
    [][(cache.eviction_policy.kind = "ARC" /\ n' = n + 1) =>
         LET a      == cache.eviction_policy
             access == last'.op = "get" /\ last'.key \in Resident(cache)
             p1     == cache'.eviction_policy.p
         IN  /\ p1 >= 0 /\ p1 <= a.capacity
             /\ IF access /\ Contains(a.b1, last'.key)
                THEN p1 = Min(a.capacity, a.p + Max(Len(a.b2) \div Len(a.b1), 1))
                ELSE IF access /\ Contains(a.b2, last'.key)
                THEN p1 = Max(0, a.p - Max(Len(a.b1) \div Len(a.b2), 1))
                ELSE p1 = a.p]_vars

\* C20: with Random, every set of a non-resident key that finds the store
\* at capacity evicts one of the keys resident before it and leaves the new
\* key resident.
C20_RandomEvicts ==
    [][OverflowingSet("Random") =>
         /\ \E k \in Resident(cache) : last'.evicted = Some(k)
         /\ last'.key \in Resident(cache')]_vars

\* C21: with SFIFO(n, s) in a Cache of capacity n * s, every set of a
\* non-resident key that finds the store at capacity removes exactly one
\* previously resident key from the store and leaves the new key resident.
C21_SFIFOEvicts ==
    [][OverflowingSet("SFIFO") =>
         \E k \in Resident(cache) :
            /\ last'.evicted = Some(k)
            /\ Resident(cache') = (Resident(cache) \ {k}) \cup {last'.key}]_vars

\* C22: the number of entries in the policy's bookkeeping never exceeds the
\* Cache capacity, or twice the Cache capacity for ARC with its ghost lists.
C22_BoundedBookkeeping ==
    Entries(cache.eviction_policy)
      <= IF cache.eviction_policy.kind = "ARC"
         THEN 2 * cache.capacity ELSE cache.capacity

\* C23: ARC's four lists are pairwise disjoint and none holds a key twice.
C23_ARCDisjoint ==
    cache.eviction_policy.kind = "ARC" =>
        Cardinality(Bookkeeping(cache.eviction_policy))
          = ARC_total(cache.eviction_policy)

\* C24: Second-Chance evict() on a queue of n entries pops at most n + 1
\* entries before it returns, and returns absent only when the queue was
\* empty.
C24_SecondChanceTerminates ==
    cache.eviction_policy.kind = "SecondChance" =>
        /\ SecondChanceLoop(cache.eviction_policy.queue).pops
             <= Len(cache.eviction_policy.queue) + 1
        /\ \A r \in Evict(cache.eviction_policy) :
              r.key = None => cache.eviction_policy.queue = <<>>

\* every entry of a queue of two or more is referenced: evict() goes once
\* round the queue and pops n + 1 entries
C24_Witness ==
    /\ cache.eviction_policy.kind = "SecondChance"
    /\ Len(cache.eviction_policy.queue) >= 2
    /\ SecondChanceLoop(cache.eviction_policy.queue).pops
         = Len(cache.eviction_policy.queue) + 1
    /\ \A r \in Evict(cache.eviction_policy) : r.key # None

\* C26: with LRU, LFU or MRU, after every Cache operation the keys of the
\* policy's map are exactly the keys of the store, and the store holds at
\* most capacity keys.
C26_MapIsStore ==
    cache.eviction_policy.kind \in {"LRU", "LFU", "MRU"} =>
        /\ Tracked(cache.eviction_policy) = Resident(cache)
        /\ Cardinality(Resident(cache)) <= cache.capacity

\* a set of a resident key found the store at capacity and evicted a key:
\* one key fewer is resident
C26_Witness ==
    /\ cache.eviction_policy.kind \in {"LRU", "LFU", "MRU"}
    /\ last.op = "set" /\ last.evicted # None
    /\ Cardinality(Resident(cache)) < cache.capacity

\* C27: remove(k) leaves no trace of k in any part of the policy's
\* bookkeeping, so that no later evict() can return k before k is set again.
C27_RemoveLeavesNoTrace ==
    [][(last'.op = "remove" /\ n' = n + 1)
         => last'.key \notin Bookkeeping(cache'.eviction_policy)]_vars

\* C29: when ARC's capacity is the Cache capacity, B1 and B2 stay empty and
\* p stays 0, replace never panics, and evict() takes the front of T1 when
\* T1 has an entry and the front of T2 otherwise.
C29_ARCEqualCapacity ==
    (cache.eviction_policy.kind = "ARC"
     /\ cache.eviction_policy.capacity = cache.capacity)
    => /\ cache.eviction_policy.b1 = <<>> /\ cache.eviction_policy.b2 = <<>>
       /\ cache.eviction_policy.p = 0
       /\ ~Panicked(cache)
       /\ \A r \in Evict(cache.eviction_policy) :
             r.key = IF cache.eviction_policy.t1 # <<>>
                     THEN Some(Head(cache.eviction_policy.t1))
                     ELSE IF cache.eviction_policy.t2 # <<>>
                     THEN Some(Head(cache.eviction_policy.t2))
                     ELSE None

\* a full store with entries in T1 and in T2, after an eviction
C29_Witness ==
    /\ cache.eviction_policy.kind = "ARC"
    /\ cache.eviction_policy.capacity = cache.capacity
    /\ Full(cache)
    /\ cache.eviction_policy.t1 # <<>> /\ cache.eviction_policy.t2 # <<>>
    /\ last.op = "set" /\ last.evicted # None

\* C30: in SLRU no key is tracked in both the probationary and the
\* protected segment.
C30_SLRUSegmentsDisjoint ==
    cache.eviction_policy.kind = "SLRU" =>
        DOMAIN cache.eviction_policy.probationary.use_order
          \cap DOMAIN cache.eviction_policy.protected.use_order = {}

\* C25: after the same sequence of on_insert, on_access and on_remove calls
\* an LRU and an MRU instance hold equal key-to-timestamp maps and equal
\* counters.
C25_MRUAsLRU ==
    /\ cache2.eviction_policy.use_order = cache.eviction_policy.use_order
    /\ cache2.eviction_policy.current_time = cache.eviction_policy.current_time

\* the last capacity calls, all of them sets of non-resident keys
Window == SubSeq(hist.run, Len(hist.run) - cache.capacity + 1, Len(hist.run))

\* C28: with LRU in a Cache of capacity C, after C consecutive sets of
\* pairwise distinct non-resident keys only the keys of those sets are
\* resident: every key resident before them has been evicted.
C28_LRUFlush ==
    (cache.eviction_policy.kind = "LRU"
     /\ Len(hist.run) >= cache.capacity
     /\ Cardinality(SeqKeys(Window)) = cache.capacity)
    => Resident(cache) \subseteq SeqKeys(Window)

\* calls were made before the C sets, and the last of the sets evicted
C28_Witness ==
    /\ cache.eviction_policy.kind = "LRU"
    /\ cache.capacity >= 2
    /\ Len(hist.run) = cache.capacity
    /\ n > Len(hist.run)
    /\ last.evicted # None

====
